---- MODULE Spec2Model ----
(***************************************************************************)
(* Model of the netlink message codec: NetlinkMessage::to_array and        *)
(* NetlinkMessage::from (src/src/message.rs), the byte reader and writer   *)
(* (packet_parser.rs, packet_writer.rs), Link::from (route.rs) and the     *)
(* attribute decoders (route_attribute.rs).                                *)
(*                                                                         *)
(* A byte is a number in 0..255 and a buffer a sequence of bytes; buffer   *)
(* offset k of the source is index k+1 here.  The checker's integers are   *)
(* 32-bit signed, so a u32 value is held as its two 16-bit halves          *)
(* <<high, low>>; u16 and i32 values are plain integers.                   *)
(***************************************************************************)
EXTENDS Integers, Sequences, FiniteSets, TLC

VARIABLES
    bigEndian,   \* byte order of the build target (native order)
    header,      \* self.header of the message handed to to_array
    payload,     \* self.payload of that message (variant name)
    bytes,       \* the caller's buffer: written by to_array, read by from
    bytes0,      \* contents of the buffer before to_array ran
    encoded,     \* TRUE once to_array has run on the buffer
    written,     \* value returned by to_array
    pc,          \* position inside NetlinkMessage::from / Link::from
    parser,      \* PacketParser: cursor position, total, netlink_length
    netlink_header, \* header fields read by from
    link,        \* fixed fields read by Link::from
    attr,        \* TLV header (length, kind) read by the attribute loop
    attributes,  \* attribute list built by Link::from
    linkResult,  \* what Link::from returned: "None" (not called), "Ok", "Err"
    result,      \* what NetlinkMessage::from returned
    op           \* the reader operation last called directly on `parser`

vars == <<bigEndian, header, payload, bytes, bytes0, encoded, written, pc, parser,
          netlink_header, link, attr, attributes, linkResult, result, op>>

----------------------------------------------------------------------------
(* Bounds of the model *)

\* most TLVs laid out after the link substructure of a generated buffer
MaxAttrs == 2

----------------------------------------------------------------------------
(* Constants of the program (libc values used by the source) *)

RTM_NEWLINK == 16
RTM_DELLINK == 17
RTM_GETLINK == 18
RTM_SETLINK == 19
IFLA_ADDRESS == 1
NLMSG_ERROR == 2
NLM_F_CREATE == 1024

----------------------------------------------------------------------------
(* Integers and byte order *)

Min(a, b) == IF a < b THEN a ELSE b
Max(a, b) == IF a > b THEN a ELSE b

Zeros(n) == [i \in 1..n |-> 0]

Reverse(s) == [i \in 1..Len(s) |-> s[Len(s) + 1 - i]]

\* u16::to_ne_bytes
u16_to_ne_bytes(v, be) ==
    IF be THEN <<v \div 256, v % 256>> ELSE <<v % 256, v \div 256>>

\* u32::to_ne_bytes, the value given as <<high half, low half>>
u32_to_ne_bytes(v, be) ==
    LET msb == <<v[1] \div 256, v[1] % 256, v[2] \div 256, v[2] % 256>>
    IN  IF be THEN msb ELSE Reverse(msb)

\* u16::from_ne_bytes
u16_from_ne_bytes(b, be) ==
    IF be THEN b[1] * 256 + b[2] ELSE b[2] * 256 + b[1]

\* u32::from_ne_bytes, as <<high half, low half>>
u32_from_ne_bytes(b, be) ==
    LET m == IF be THEN b ELSE Reverse(b)
    IN  <<m[1] * 256 + m[2], m[3] * 256 + m[4]>>

\* i32::from_ne_bytes: two's complement
i32_from_ne_bytes(b, be) ==
    LET m == IF be THEN b ELSE Reverse(b)
        top == IF m[1] >= 128 THEN m[1] - 256 ELSE m[1]
    IN  top * 16777216 + m[2] * 65536 + m[3] * 256 + m[4]

\* `length as usize` compared with a buffer length (a usize below 65536)
U32Gt(v, n) == v[1] > 0 \/ v[2] > n
U32Lt(v, n) == v[1] = 0 /\ v[2] < n

----------------------------------------------------------------------------
(* std::mem::size_of of a #[repr(C)] struct, from its fields' sizes; a     *)
(* primitive field is aligned to its size.                                 *)

AlignUp(off, a) == ((off + a - 1) \div a) * a

RECURSIVE LayoutEnd(_, _)
LayoutEnd(fields, off) ==
    IF fields = <<>> THEN off
    ELSE LayoutEnd(Tail(fields), AlignUp(off, Head(fields)) + Head(fields))

RECURSIVE MaxAlign(_)
MaxAlign(fields) ==
    IF fields = <<>> THEN 1 ELSE Max(Head(fields), MaxAlign(Tail(fields)))

size_of(fields) == AlignUp(LayoutEnd(fields, 0), MaxAlign(fields))

\* struct NetlinkHeader { length: u32, kind: u16, flags: u16, sequence: u32, port_id: u32 }
NetlinkHeader == <<4, 2, 2, 4, 4>>

\* struct LinkMessage { family: u8, kind: u16, index: i32, flags: u32, change: u32 }
LinkMessage == <<1, 2, 4, 4, 4>>

----------------------------------------------------------------------------
(* PacketWriter: the not yet written rest of the buffer begins at offset   *)
(* `pos`; `total` counts the bytes written.                                *)

PacketWriter_new(buf) == [buf |-> buf, pos |-> 0, total |-> 0]

\* variant of PacketWriter_write: a value that does not fit whole is not written
PacketWriter_write_whole_only(w, data) ==
    LET amount == IF Len(data) <= Len(w.buf) - w.pos THEN Len(data) ELSE 0
    IN  [buf   |-> [i \in 1..Len(w.buf) |->
                      IF i > w.pos /\ i <= w.pos + amount
                      THEN data[i - w.pos] ELSE w.buf[i]],
         pos   |-> w.pos + amount,
         total |-> w.total + amount]

\* <&mut [u8] as Write>::write copies as many bytes as fit and reports them
PacketWriter_write(w, data) ==
    LET amount == Min(Len(data), Len(w.buf) - w.pos)
    IN  [buf   |-> [i \in 1..Len(w.buf) |->
                      IF i > w.pos /\ i <= w.pos + amount
                      THEN data[i - w.pos] ELSE w.buf[i]],
         pos   |-> w.pos + amount,
         total |-> w.total + amount]

write_u16(w, v, be) == PacketWriter_write(w, u16_to_ne_bytes(v, be))

write_u32(w, v, be) == PacketWriter_write(w, u32_to_ne_bytes(v, be))

written_total(w) == w.total

----------------------------------------------------------------------------
(* PacketParser over the buffer `bytes` *)

PacketParser_new(buf) == [position |-> 0, total |-> Len(buf), netlink_length |-> <<0, 0>>]

remaining(p) == p.total - p.position

position(p) == p.position

set_netlink_length(p, length) == [p EXCEPT !.netlink_length = length]

\* variant of cursor_read: the position advances by w whatever was copied
cursor_read_whole_width(p, w) ==
    LET n == Min(w, Max(remaining(p), 0))
    IN  [buffer |-> SubSeq(bytes, p.position + 1, p.position + n) \o Zeros(w - n),
         parser |-> [p EXCEPT !.position = @ + w]]

\* Cursor::read into a zeroed buffer of w bytes: copies what is left, at
\* most w bytes, and advances by that much; it never fails
cursor_read(p, w) ==
    LET n == Min(w, remaining(p))
    IN  [buffer |-> SubSeq(bytes, p.position + 1, p.position + n) \o Zeros(w - n),
         parser |-> [p EXCEPT !.position = @ + n]]

read_u8(p) ==
    LET r == cursor_read(p, 1) IN [value |-> r.buffer[1], parser |-> r.parser]

\* variant of read_u16: the value is read and the cursor is left where it was
read_u16_peek(p) ==
    LET r == cursor_read(p, 2)
    IN  [value |-> u16_from_ne_bytes(r.buffer, bigEndian), parser |-> p]

read_u16(p) ==
    LET r == cursor_read(p, 2)
    IN  [value |-> u16_from_ne_bytes(r.buffer, bigEndian), parser |-> r.parser]

\* variant of read_i32: big-endian whatever the target
read_i32_be(p) ==
    LET r == cursor_read(p, 4)
    IN  [value |-> i32_from_ne_bytes(r.buffer, TRUE), parser |-> r.parser]

read_i32(p) ==
    LET r == cursor_read(p, 4)
    IN  [value |-> i32_from_ne_bytes(r.buffer, bigEndian), parser |-> r.parser]

read_u32(p) ==
    LET r == cursor_read(p, 4)
    IN  [value |-> u32_from_ne_bytes(r.buffer, bigEndian), parser |-> r.parser]

read_mac(p) ==
    LET r == cursor_read(p, 6) IN [value |-> r.buffer, parser |-> r.parser]

\* vec![0u8; amount], then one Cursor::read into it
read_vec(p, amount) ==
    LET r == cursor_read(p, amount) IN [value |-> r.buffer, parser |-> r.parser]

\* get_slice indexes self.bytes[position .. position + amount]: the index
\* expression panics when the range ends beyond the buffer
get_slice_panics(p, amount) == p.position + amount > Len(bytes)

\* variant of get_slice: the position is then padded to a 4-byte boundary
get_slice_aligned(p, amount) ==
    [value  |-> SubSeq(bytes, p.position + 1, p.position + amount),
     parser |-> [p EXCEPT !.position = @ + AlignUp(amount, 4)]]

get_slice(p, amount) ==
    [value  |-> SubSeq(bytes, p.position + 1, p.position + amount),
     parser |-> [p EXCEPT !.position = @ + amount]]

----------------------------------------------------------------------------
(* Values before anything was decoded *)

NoHeader == [length |-> <<0, 0>>, kind |-> 0, flags |-> 0,
             sequence |-> <<0, 0>>, port_id |-> <<0, 0>>]

NoLinkMessage == [family |-> 0, kind |-> 0, index |-> 0,
                  flags |-> <<0, 0>>, change |-> <<0, 0>>]

NoAttr == [length |-> 0, kind |-> 0]

NoPayload == [tag |-> "None", data |-> <<>>, message |-> NoLinkMessage, attributes |-> <<>>]

NoOp == [name |-> "None", amount |-> 0, ok |-> TRUE]

NoResult == [tag |-> "None", err |-> "None", header |-> NoHeader, payload |-> NoPayload]

\* Err(NetlinkParseError::...)
Err(e) == [tag |-> "Err", err |-> e, header |-> NoHeader, payload |-> NoPayload]

\* variant of PayloadUnknown: the slice begins one byte late
PayloadUnknown_from_17(buf) ==
    [tag |-> "Unknown", data |-> SubSeq(buf, 18, Len(buf)),
     message |-> NoLinkMessage, attributes |-> <<>>]

\* NetlinkPayload::Unknown(&bytes[16..])
PayloadUnknown(buf) ==
    [tag |-> "Unknown", data |-> SubSeq(buf, 17, Len(buf)),
     message |-> NoLinkMessage, attributes |-> <<>>]

\* NetlinkPayload::Route(MessageType::Link(link))
PayloadRoute(msg, attrs) ==
    [tag |-> "Route", data |-> <<>>, message |-> msg, attributes |-> attrs]

\* Ok(NetlinkMessage { header, payload })
Ok(h, p) == [tag |-> "Ok", err |-> "None", header |-> h, payload |-> p]

\* the call aborted: an index out of range in get_slice
Panic == [tag |-> "Panic", err |-> "None", header |-> NoHeader, payload |-> NoPayload]

----------------------------------------------------------------------------
(* Inputs: the messages handed to to_array and the buffers handed to       *)
(* to_array and from                                                       *)

Prefixes(s) == {SubSeq(s, 1, m) : m \in 0..Len(s)}

\* fixed link fields on the wire: family, kind, index, flags, change
\* (all bytes differ; the index is negative and the flags exceed 2^31 in
\* either byte order)
LinkFixedChoices ==
    { <<10, 17, 34, 255, 253, 252, 254, 133, 6, 7, 128, 9, 11, 12, 13>> }

TLVHeader(length, kind, be) == u16_to_ne_bytes(length, be) \o u16_to_ne_bytes(kind, be)

\* a MAC attribute, an empty attribute of another kind, and one with 2 value bytes
TLVChoices(be) ==
    { TLVHeader(10, IFLA_ADDRESS, be) \o <<170, 187, 204, 221, 238, 255>>,
      TLVHeader(0, 3, be),
      TLVHeader(2, 7, be) \o <<17, 34>> }

RECURSIVE TLVStreams(_, _)
TLVStreams(n, be) ==
    IF n = 0 THEN {<<>>}
    ELSE LET shorter == TLVStreams(n - 1, be)
         IN  shorter \cup {s \o t : s \in shorter, t \in TLVChoices(be)}

\* what follows the 16 header bytes: a link body with its attribute stream,
\* whole or cut at any byte
Bodies(be) ==
    UNION { Prefixes(l \o t) : l \in LinkFixedChoices, t \in TLVStreams(MaxAttrs, be) }

\* the first 16 bytes of a buffer nothing was encoded into
Fillers == { Zeros(16), [i \in 1..16 |-> 255] }

\* output buffers of to_array: zeroed, then whatever the body holds
OutBuffers(be) == Prefixes(Zeros(16)) \cup {Zeros(16) \o b : b \in Bodies(be)}

\* buffers handed to from as they are
RawBuffers(be) ==
    UNION {Prefixes(f) : f \in Fillers} \cup {f \o b : f \in Fillers, b \in Bodies(be)}

LengthChoices(n) == { <<0, 15>>, <<0, 16>>, <<0, n>>, <<0, n + 1>>, <<256, 16>> }

KindChoices == { NLMSG_ERROR, RTM_NEWLINK, RTM_DELLINK, RTM_GETLINK, RTM_SETLINK, 272 }

Headers(n) ==
    { [length |-> l, kind |-> k, flags |-> f[1], sequence |-> f[2], port_id |-> f[3]] :
        l \in LengthChoices(n), k \in KindChoices,
        f \in { <<NLM_F_CREATE, <<0, 1>>, <<0, 123>>>>,
                <<43981, <<258, 772>>, <<65535, 65534>>>> } }

PayloadChoices == { "None", "Route" }

Init ==
    /\ bigEndian \in BOOLEAN
    /\ \/ /\ bytes \in OutBuffers(bigEndian)
          /\ header \in Headers(Len(bytes))
          /\ payload \in PayloadChoices
       \/ /\ bytes \in RawBuffers(bigEndian)
          /\ header = NoHeader
          /\ payload = "None"
    /\ bytes0 = bytes
    /\ encoded = FALSE
    /\ written = 0
    /\ pc = "idle"
    /\ parser = PacketParser_new(<<>>)
    /\ netlink_header = NoHeader
    /\ link = NoLinkMessage
    /\ attr = NoAttr
    /\ attributes = <<>>
    /\ linkResult = "None"
    /\ result = NoResult
    /\ op = NoOp

----------------------------------------------------------------------------
(* NetlinkMessage::to_array *)

to_array ==
    /\ pc = "idle"
    /\ ~encoded
    /\ LET w0 == PacketWriter_new(bytes)
           w1 == write_u32(w0, header.length, bigEndian)
           w2 == write_u16(w1, header.kind, bigEndian)
           w3 == write_u16(w2, header.flags, bigEndian)
           w4 == write_u32(w3, header.sequence, bigEndian)
           w5 == write_u32(w4, header.port_id, bigEndian)
       IN  /\ bytes' = w5.buf
           /\ written' = written_total(w5)
    /\ encoded' = TRUE
    /\ UNCHANGED <<op, bigEndian, header, payload, bytes0, pc, parser, netlink_header,
                   link, attr, attributes, linkResult, result>>

----------------------------------------------------------------------------
(* NetlinkMessage::from.  The result of each read is bound once, the reads *)
(* in the order of the source, each on the parser the one before left.     *)

\* variant of buffer_too_short: the bound one byte too low
buffer_too_short_off_by_one(len) == len < size_of(NetlinkHeader) - 1

\* bytes.len() < mem::size_of::<NetlinkHeader>()
buffer_too_short(len) == len < size_of(NetlinkHeader)

\* variant of length_exceeds_buffer: the length truncated to its low 16 bits
length_exceeds_buffer_low_half(length, len) == length[2] > len

\* (length as usize) > bytes.len()
length_exceeds_buffer(length, len) == U32Gt(length, len)

\* variant of length_too_small: the bound one byte too low
length_too_small_off_by_one(length) == U32Lt(length, size_of(NetlinkHeader) - 1)

\* (length as usize) < mem::size_of::<NetlinkHeader>()
length_too_small(length) == U32Lt(length, size_of(NetlinkHeader))

\* libc::RTM_GETLINK | libc::RTM_NEWLINK | libc::RTM_DELLINK | libc::RTM_SETLINK
is_link_kind(kind) ==
    kind = RTM_GETLINK \/ kind = RTM_NEWLINK \/ kind = RTM_DELLINK \/ kind = RTM_SETLINK

\* the size check on entry, then PacketParser::new
from_check_size ==
    /\ pc = "idle"
    /\ IF buffer_too_short(Len(bytes))
       THEN /\ result' = Err("MessageIncomplete")
            /\ pc' = "done"
            /\ UNCHANGED parser
       ELSE /\ parser' = PacketParser_new(bytes)
            /\ pc' = "read_length"
            /\ UNCHANGED result
    /\ UNCHANGED <<op, bigEndian, header, payload, bytes, bytes0, encoded, written,
                   netlink_header, link, attr, attributes, linkResult>>

\* read and check the declared length, then set_netlink_length
from_read_length ==
    /\ pc = "read_length"
    /\ \E r \in {read_u32(parser)} :
           IF length_exceeds_buffer(r.value, Len(bytes))
           THEN /\ result' = Err("MessageIncomplete")
                /\ pc' = "done"
                /\ parser' = r.parser
                /\ UNCHANGED netlink_header
           ELSE IF length_too_small(r.value)
           THEN /\ result' = Err("MessageTooSmall")
                /\ pc' = "done"
                /\ parser' = r.parser
                /\ UNCHANGED netlink_header
           ELSE /\ parser' = set_netlink_length(r.parser, r.value)
                /\ netlink_header' = [netlink_header EXCEPT !.length = r.value]
                /\ pc' = "read_header"
                /\ UNCHANGED result
    /\ UNCHANGED <<op, bigEndian, header, payload, bytes, bytes0, encoded, written,
                   link, attr, attributes, linkResult>>

\* read kind, flags, sequence, port_id
from_read_header ==
    /\ pc = "read_header"
    /\ \E k \in {read_u16(parser)} :
       \E f \in {read_u16(k.parser)} :
       \E s \in {read_u32(f.parser)} :
       \E p \in {read_u32(s.parser)} :
           /\ netlink_header' = [length   |-> netlink_header.length,
                                 kind     |-> k.value,
                                 flags    |-> f.value,
                                 sequence |-> s.value,
                                 port_id  |-> p.value]
           /\ parser' = p.parser
    /\ pc' = "dispatch"
    /\ UNCHANGED <<op, bigEndian, header, payload, bytes, bytes0, encoded, written,
                   link, attr, attributes, linkResult, result>>

\* match kind
from_dispatch ==
    /\ pc = "dispatch"
    /\ IF is_link_kind(netlink_header.kind)
       THEN /\ pc' = "link_check"
            /\ UNCHANGED result
       ELSE /\ result' = Ok(netlink_header, PayloadUnknown(bytes))
            /\ pc' = "done"
    /\ UNCHANGED <<op, bigEndian, header, payload, bytes, bytes0, encoded, written, parser,
                   netlink_header, link, attr, attributes, linkResult>>

\* match route::Link::from(&mut parser)
from_link_return ==
    /\ pc = "link_return"
    /\ result' = IF linkResult = "Ok"
                 THEN Ok(netlink_header, PayloadRoute(link, attributes))
                 ELSE Ok(netlink_header, PayloadUnknown(bytes))
    /\ pc' = "done"
    /\ UNCHANGED <<op, bigEndian, header, payload, bytes, bytes0, encoded, written, parser,
                   netlink_header, link, attr, attributes, linkResult>>

----------------------------------------------------------------------------
(* Link::from *)

\* (parser.remaining() as usize) < std::mem::size_of::<LinkMessage>()
link_too_short(p) == remaining(p) < size_of(LinkMessage)

link_check_size ==
    /\ pc = "link_check"
    /\ IF link_too_short(parser)
       THEN /\ linkResult' = "Err"
            /\ pc' = "link_return"
       ELSE /\ pc' = "link_fixed"
            /\ UNCHANGED linkResult
    /\ UNCHANGED <<op, bigEndian, header, payload, bytes, bytes0, encoded, written, parser,
                   netlink_header, link, attr, attributes, result>>

\* family, kind, index, flags, change, read in that order
link_read_fixed ==
    /\ pc = "link_fixed"
    /\ \E fa \in {read_u8(parser)} :
       \E ki \in {read_u16(fa.parser)} :
       \E ix \in {read_i32(ki.parser)} :
       \E fl \in {read_u32(ix.parser)} :
       \E ch \in {read_u32(fl.parser)} :
           /\ link' = [family |-> fa.value, kind |-> ki.value, index |-> ix.value,
                       flags |-> fl.value, change |-> ch.value]
           /\ parser' = ch.parser
    /\ attributes' = <<>>
    /\ pc' = "link_loop"
    /\ UNCHANGED <<op, bigEndian, header, payload, bytes, bytes0, encoded, written,
                   netlink_header, attr, linkResult, result>>

\* while parser.remaining() > 0: read the TLV header; otherwise return Ok(Link)
link_loop ==
    /\ pc = "link_loop"
    /\ IF remaining(parser) > 0
       THEN \E le \in {read_u16(parser)} :
            \E ki \in {read_u16(le.parser)} :
                /\ attr' = [length |-> le.value, kind |-> ki.value]
                /\ parser' = ki.parser
                /\ pc' = "attr_value"
                /\ UNCHANGED linkResult
       ELSE /\ linkResult' = "Ok"
            /\ pc' = "link_return"
            /\ UNCHANGED <<attr, parser>>
    /\ UNCHANGED <<op, bigEndian, header, payload, bytes, bytes0, encoded, written,
                   netlink_header, link, attributes, result>>

----------------------------------------------------------------------------
(* Attribute decoders *)

\* AttributeValue::<Mac>::from: six read_u8
attr_mac ==
    /\ pc = "attr_value"
    /\ attr.kind = IFLA_ADDRESS
    /\ \E b1 \in {read_u8(parser)} :
       \E b2 \in {read_u8(b1.parser)} :
       \E b3 \in {read_u8(b2.parser)} :
       \E b4 \in {read_u8(b3.parser)} :
       \E b5 \in {read_u8(b4.parser)} :
       \E b6 \in {read_u8(b5.parser)} :
           /\ attributes' = Append(attributes,
                 [variant |-> "Mac", length |-> attr.length, kind |-> attr.kind,
                  value |-> <<b1.value, b2.value, b3.value, b4.value, b5.value, b6.value>>])
           /\ parser' = b6.parser
    /\ pc' = "link_loop"
    /\ UNCHANGED <<op, bigEndian, header, payload, bytes, bytes0, encoded, written,
                   netlink_header, link, attr, linkResult, result>>

\* AttributeValue::<&[u8]>::from: parser.get_slice(length as usize)
attr_unknown ==
    /\ pc = "attr_value"
    /\ attr.kind # IFLA_ADDRESS
    /\ IF get_slice_panics(parser, attr.length)
       THEN /\ result' = Panic
            /\ pc' = "done"
            /\ UNCHANGED <<attributes, parser>>
       ELSE \E s \in {get_slice(parser, attr.length)} :
                /\ attributes' = Append(attributes,
                      [variant |-> "Unknown", length |-> attr.length, kind |-> attr.kind,
                       value |-> s.value])
                /\ parser' = s.parser
                /\ pc' = "link_loop"
                /\ UNCHANGED result
    /\ UNCHANGED <<op, bigEndian, header, payload, bytes, bytes0, encoded, written,
                   netlink_header, link, attr, linkResult>>

----------------------------------------------------------------------------

Next ==
    \/ to_array
    \/ from_check_size
    \/ from_read_length
    \/ from_read_header
    \/ from_dispatch
    \/ from_link_return
    \/ link_check_size
    \/ link_read_fixed
    \/ link_loop
    \/ attr_mac
    \/ attr_unknown

Spec == Init /\ [][Next]_vars

----------------------------------------------------------------------------
(* The PacketParser on its own: any sequence of its operations on a buffer *)

\* amounts handed to read_vec and get_slice
ReaderAmounts == {0, 1, 2, 6, 10}

InitReader ==
    /\ bigEndian \in BOOLEAN
    /\ bytes \in OutBuffers(bigEndian)
    /\ header = NoHeader
    /\ payload = "None"
    /\ bytes0 = bytes
    /\ encoded = FALSE
    /\ written = 0
    /\ pc = "reader"
    /\ parser = PacketParser_new(bytes)
    /\ netlink_header = NoHeader
    /\ link = NoLinkMessage
    /\ attr = NoAttr
    /\ attributes = <<>>
    /\ linkResult = "None"
    /\ result = NoResult
    /\ op = NoOp

\* a call of a read_* operation: the parser after it, the operation recorded
reader_called(name, amount, r) ==
    /\ pc = "reader"
    /\ parser' = r.parser
    /\ op' = [name |-> name, amount |-> amount, ok |-> TRUE]
    /\ UNCHANGED <<bigEndian, header, payload, bytes, bytes0, encoded, written, pc,
                   netlink_header, link, attr, attributes, linkResult, result>>

reader_read_u8 == reader_called("read_u8", 1, read_u8(parser))

reader_read_u16 == reader_called("read_u16", 2, read_u16(parser))

reader_read_i32 == reader_called("read_i32", 4, read_i32(parser))

reader_read_u32 == reader_called("read_u32", 4, read_u32(parser))

reader_read_mac == reader_called("read_mac", 6, read_mac(parser))

reader_read_vec == \E amount \in ReaderAmounts :
    reader_called("read_vec", amount, read_vec(parser, amount))

\* get_slice: the slice index panics, or the position advances
reader_get_slice == \E amount \in ReaderAmounts :
    /\ pc = "reader"
    /\ IF get_slice_panics(parser, amount)
       THEN /\ op' = [name |-> "get_slice", amount |-> amount, ok |-> FALSE]
            /\ pc' = "done"
            /\ UNCHANGED parser
       ELSE /\ op' = [name |-> "get_slice", amount |-> amount, ok |-> TRUE]
            /\ parser' = get_slice(parser, amount).parser
            /\ UNCHANGED pc
    /\ UNCHANGED <<bigEndian, header, payload, bytes, bytes0, encoded, written,
                   netlink_header, link, attr, attributes, linkResult, result>>

NextReader ==
    \/ reader_read_u8
    \/ reader_read_u16
    \/ reader_read_i32
    \/ reader_read_u32
    \/ reader_read_mac
    \/ reader_read_vec
    \/ reader_get_slice

ReaderSpec == InitReader /\ [][NextReader]_vars

----------------------------------------------------------------------------
(* NetlinkMessage::from runs to its end once called: its steps are taken   *)
(* as long as one is possible.                                             *)

NextFrom ==
    \/ from_check_size
    \/ from_read_length
    \/ from_read_header
    \/ from_dispatch
    \/ from_link_return
    \/ link_check_size
    \/ link_read_fixed
    \/ link_loop
    \/ attr_mac
    \/ attr_unknown

\* the messages of the runs checked for termination: a link kind and
\* another kind, the declared length the header alone or the whole buffer
FairHeaders(n) ==
    { [length |-> l, kind |-> k, flags |-> NLM_F_CREATE,
       sequence |-> <<0, 1>>, port_id |-> <<0, 123>>] :
        l \in { <<0, 16>>, <<0, n>> }, k \in { RTM_NEWLINK, NLMSG_ERROR } }

InitFair ==
    /\ bigEndian \in BOOLEAN
    /\ bytes \in OutBuffers(bigEndian)
    /\ header \in FairHeaders(Len(bytes))
    /\ payload = "None"
    /\ bytes0 = bytes
    /\ encoded = FALSE
    /\ written = 0
    /\ pc = "idle"
    /\ parser = PacketParser_new(<<>>)
    /\ netlink_header = NoHeader
    /\ link = NoLinkMessage
    /\ attr = NoAttr
    /\ attributes = <<>>
    /\ linkResult = "None"
    /\ result = NoResult
    /\ op = NoOp

FairSpec == InitFair /\ [][Next]_vars /\ WF_vars(NextFrom)

----------------------------------------------------------------------------
(* The wire format as the claims state it: values at buffer offsets, in    *)
(* native byte order.                                                      *)

ByteAt(off) == bytes[off + 1]

WireU16(off) ==
    IF bigEndian THEN ByteAt(off) * 256 + ByteAt(off + 1)
    ELSE ByteAt(off + 1) * 256 + ByteAt(off)

WireU32(off) ==
    IF bigEndian THEN <<WireU16(off), WireU16(off + 2)>>
    ELSE <<WireU16(off + 2), WireU16(off)>>

WireI32(off) ==
    LET v == WireU32(off)
    IN  IF v[1] >= 32768 THEN (v[1] - 65536) * 65536 + v[2] ELSE v[1] * 65536 + v[2]

NativeU16(v) == IF bigEndian THEN <<v \div 256, v % 256>> ELSE <<v % 256, v \div 256>>

NativeU32(v) ==
    IF bigEndian THEN NativeU16(v[1]) \o NativeU16(v[2])
    ELSE NativeU16(v[2]) \o NativeU16(v[1])

\* length(4) kind(2) flags(2) sequence(4) port_id(4)
NativeHeader(h) ==
    NativeU32(h.length) \o NativeU16(h.kind) \o NativeU16(h.flags)
        \o NativeU32(h.sequence) \o NativeU32(h.port_id)

LinkKinds == {RTM_NEWLINK, RTM_DELLINK, RTM_GETLINK, RTM_SETLINK}

Done == pc = "done"

\* 16 <= declared length <= buffer length
HeaderValid ==
    /\ Len(bytes) >= 16
    /\ WireU32(0)[1] = 0
    /\ WireU32(0)[2] >= 16
    /\ WireU32(0)[2] <= Len(bytes)

DeclaredBelow16 == WireU32(0)[1] = 0 /\ WireU32(0)[2] < 16

DeclaredAboveBuffer == WireU32(0)[1] > 0 \/ WireU32(0)[2] > Len(bytes)

FailedWith(e) == result.tag = "Err" /\ result.err = e

BytesAfterHeader == [i \in 1..(Len(bytes) - 16) |-> bytes[16 + i]]

IsUnknownAfterHeader ==
    /\ result.tag = "Ok"
    /\ result.payload.tag = "Unknown"
    /\ result.payload.data = BytesAfterHeader

----------------------------------------------------------------------------
C2_DeclaredTooSmall ==
    (Done /\ Len(bytes) >= 16 /\ DeclaredBelow16) => FailedWith("MessageTooSmall")

C2_Witness ==
    /\ Done
    /\ Len(bytes) > 16
    /\ WireU32(0) = <<0, 15>>
    /\ WireU16(4) = RTM_NEWLINK
    /\ FailedWith("MessageTooSmall")

\* C3: for every buffer of at least 16 bytes whose declared length exceeds
\* the buffer length, from returns MessageIncomplete; from returns Ok only
\* when 16 <= declared length <= buffer length.
C3_DeclaredBeyondBuffer ==
    /\ (Done /\ Len(bytes) >= 16 /\ DeclaredAboveBuffer) => FailedWith("MessageIncomplete")
    /\ result.tag = "Ok" => HeaderValid
    /\ (Done /\ result.tag = "Err") => ~HeaderValid

C3_Witness ==
    /\ Done
    /\ Len(bytes) >= 16
    /\ WireU32(0) = <<256, 16>>
    /\ FailedWith("MessageIncomplete")

\* C4: a buffer with a valid header whose kind is none of the four link
\* kinds decodes to Payload::Unknown holding exactly the bytes from offset
\* 16 to the end of the buffer; the unrecognized kind raises no error.
C4_UnknownKindPayload ==
    (Done /\ HeaderValid /\ WireU16(4) \notin LinkKinds) => IsUnknownAfterHeader

C4_Witness ==
    /\ Done
    /\ HeaderValid
    /\ WireU16(4) = 272
    /\ Len(bytes) > 16
    /\ WireU32(0)[2] < Len(bytes)
    /\ IsUnknownAfterHeader

\* C5: header round trip: a header of any kind encoded by to_array into any
\* buffer of N >= 16 bytes with 16 <= length <= N decodes successfully to a
\* header with the same five fields.
C5_HeaderRoundTrip ==
    (Done /\ encoded /\ Len(bytes) >= 16 /\ header.length[1] = 0
          /\ header.length[2] >= 16 /\ header.length[2] <= Len(bytes))
        => (result.tag = "Ok" /\ result.header = header)

\* the round trip of C5 on the runs in which from returns
C5_RoundTripWhenReturned ==
    (Done /\ result.tag # "Panic" /\ encoded /\ Len(bytes) >= 16 /\ header.length[1] = 0
          /\ header.length[2] >= 16 /\ header.length[2] <= Len(bytes))
        => (result.tag = "Ok" /\ result.header = header)

\* The attribute stream, which begins at buffer offset `off`, ends inside a
\* TLV: inside its 4-byte header or before the end of its value (6 bytes
\* for IFLA_ADDRESS, `length` bytes for any other kind).
RECURSIVE TruncatedMidTLV(_)
TruncatedMidTLV(off) ==
    LET left == Len(bytes) - off
    IN  IF left <= 0 THEN FALSE
        ELSE IF left < 4 THEN TRUE
        ELSE LET value == IF WireU16(off + 2) = IFLA_ADDRESS THEN 6 ELSE WireU16(off)
             IN  IF off + 4 + value > Len(bytes) THEN TRUE
                 ELSE TruncatedMidTLV(off + 4 + value)

\* C6: a link-kind message with a valid header whose attribute stream is
\* truncated in the middle of a TLV decodes to Payload::Unknown holding the
\* bytes after the header: never an error, never a Payload::Route.
C6_TruncatedLinkIsUnknown ==
    (Done /\ HeaderValid /\ WireU16(4) \in LinkKinds /\ Len(bytes) >= 31
          /\ TruncatedMidTLV(31))
        => IsUnknownAfterHeader

\* C7: for every buffer from returns a typed error or a message; it never
\* aborts and never indexes the buffer at or beyond its length.
C7_NeverPanics == result.tag # "Panic"

\* C8: to_array writes only the header: into a buffer of length L it
\* returns min(16, L), the first min(16, L) bytes are the prefix of the
\* native-order header encoding, every byte at index >= 16 is unchanged,
\* and the payload has no influence.
C8_ToArrayWritesHeaderOnly ==
    encoded =>
        /\ written = (IF Len(bytes0) < 16 THEN Len(bytes0) ELSE 16)
        /\ Len(bytes) = Len(bytes0)
        /\ \A i \in 1..Len(bytes) :
              bytes[i] = IF i <= 16 THEN NativeHeader(header)[i] ELSE bytes0[i]

C8_Witness ==
    /\ encoded
    /\ payload = "Route"
    /\ Len(bytes) > 16
    /\ bytes[17] # 0
    /\ written = 16
    /\ bytes # bytes0

\* C9: with a valid header the payload is Route(Link) exactly when the kind
\* is a link kind and Link::from succeeded on the bytes after the header
\* (it is called for link kinds only); the link's family, kind, index,
\* flags and change are then the native-order values at buffer offsets 16,
\* 17, 19, 23, 27, and the header's kind is the one at offset 4.
C9_DispatchOnKind ==
    (Done /\ result.tag = "Ok") =>
        /\ result.payload.tag = "Route"
              <=> (WireU16(4) \in LinkKinds /\ linkResult = "Ok")
        /\ linkResult # "None" <=> WireU16(4) \in LinkKinds
        /\ result.payload.tag = "Route" =>
              /\ result.payload.message.family = ByteAt(16)
              /\ result.payload.message.kind = WireU16(17)
              /\ result.payload.message.index = WireI32(19)
              /\ result.payload.message.flags = WireU32(23)
              /\ result.payload.message.change = WireU32(27)
              /\ result.header.kind = WireU16(4)

C9_Witness ==
    /\ Done
    /\ result.tag = "Ok"
    /\ result.payload.tag = "Route"
    /\ result.payload.message.index < 0
    /\ result.payload.message.kind # result.header.kind
    /\ Len(result.payload.attributes) = 2
    /\ result.payload.attributes[2].kind # result.payload.message.kind

\* C10: Link::from fails with MessageIncomplete exactly when fewer than 15
\* bytes (family 1 + kind 2 + index 4 + flags 4 + change 4) remain after
\* the header; a link-kind message with exactly 15 body bytes decodes to
\* Payload::Route(Link) with an empty attribute list.
C10_LinkNeedsFifteenBytes ==
    /\ linkResult = "Err" => Len(bytes) - 16 < 15
    /\ (Done /\ HeaderValid /\ WireU16(4) \in LinkKinds /\ Len(bytes) - 16 < 15)
          => linkResult = "Err"
    /\ (Done /\ HeaderValid /\ WireU16(4) \in LinkKinds /\ Len(bytes) - 16 = 15)
          => /\ result.tag = "Ok"
             /\ result.payload.tag = "Route"
             /\ result.payload.attributes = <<>>

\* The attributes of a stream of whole TLVs that begins at buffer offset
\* `off`: per TLV header one entry with its length and kind; kind
\* IFLA_ADDRESS holds the next 6 bytes, any other kind the next `length`
\* bytes, and the next TLV header follows at once.
RECURSIVE WireAttributes(_)
WireAttributes(off) ==
    IF Len(bytes) - off <= 0 THEN <<>>
    ELSE LET length == WireU16(off)
             kind   == WireU16(off + 2)
             isMac  == kind = IFLA_ADDRESS
             size   == IF isMac THEN 6 ELSE length
         IN  << [variant |-> IF isMac THEN "Mac" ELSE "Unknown",
                 length  |-> length,
                 kind    |-> kind,
                 value   |-> [i \in 1..size |-> ByteAt(off + 4 + i - 1)]] >>
             \o WireAttributes(off + 4 + size)

\* C11: for a link body in which every TLV is fully present, the attribute
\* list has one entry per TLV header, in wire order with duplicate kinds
\* kept, each with the TLV's declared length and kind; IFLA_ADDRESS becomes
\* Mac with the next 6 bytes, any other kind Unknown with exactly `length`
\* bytes after the 4-byte TLV header, and no padding is skipped.
C11_AttributeStream ==
    (Done /\ HeaderValid /\ WireU16(4) \in LinkKinds /\ Len(bytes) > 31
          /\ ~TruncatedMidTLV(31))
        => /\ result.tag = "Ok"
           /\ result.payload.tag = "Route"
           /\ result.payload.attributes = WireAttributes(31)

C11_Witness ==
    /\ Done
    /\ HeaderValid
    /\ Len(bytes) > 31
    /\ ~TruncatedMidTLV(31)
    /\ result.payload.tag = "Route"
    /\ Len(result.payload.attributes) = 2
    /\ result.payload.attributes[1].variant = "Unknown"
    /\ Len(result.payload.attributes[1].value) = 2
    /\ result.payload.attributes[2].variant = "Mac"
    /\ result.payload.attributes[2].length = 10

\* the same with a repeated kind
C11_DuplicateKinds ==
    /\ Done
    /\ result.payload.tag = "Route"
    /\ Len(result.payload.attributes) = 2
    /\ result.payload.attributes[1] = result.payload.attributes[2]
    /\ result.payload.attributes[1].variant = "Mac"

\* C12: a read that requests more bytes than remain never returns a partly
\* or zero-filled value as if it had succeeded: in Link::from a TLV header
\* read with fewer than 4 bytes left, or a MAC read with fewer than 6, is
\* followed by Link::from returning the failure to its caller.
C12_UnderReadIsReported ==
    [][ (\/ (pc = "link_loop" /\ Len(bytes) - parser.position \in 1..3)
         \/ (pc = "attr_value" /\ attr.kind = IFLA_ADDRESS
                 /\ Len(bytes) - parser.position < 6))
        => (linkResult' = "Err" /\ pc' = "link_return") ]_vars

\* C14: while from decodes a link-kind message whose declared length is
\* smaller than the buffer length, the reader position never exceeds the
\* declared length (the value stored by set_netlink_length).
C14_BoundedByDeclaredLength ==
    (pc \notin {"idle", "read_length"} /\ HeaderValid /\ WireU16(4) \in LinkKinds
          /\ WireU32(0)[2] < Len(bytes))
        => /\ parser.netlink_length = WireU32(0)
           /\ parser.position <= WireU32(0)[2]

\* the operations that read a fixed number of bytes, and read_vec
ReadOps == {"read_u8", "read_u16", "read_i32", "read_u32", "read_mac", "read_vec"}

\* C13: after any sequence of reader operations on a buffer of length T,
\* 0 <= position() <= T and remaining() = T - position(); the position
\* never decreases; a read of w bytes advances it by min(w, remaining) and
\* a successful get_slice(n) by exactly n.
C13_CursorInvariant ==
    /\ [](/\ position(parser) >= 0
          /\ position(parser) <= Len(bytes)
          /\ remaining(parser) = Len(bytes) - position(parser)
          /\ remaining(parser) >= 0)
    /\ [][ /\ parser'.position >= parser.position
           /\ op'.name \in ReadOps =>
                 parser'.position = parser.position
                     + (IF op'.amount < Len(bytes) - parser.position
                        THEN op'.amount ELSE Len(bytes) - parser.position)
           /\ (op'.name = "get_slice" /\ op'.ok) =>
                 parser'.position = parser.position + op'.amount ]_vars

\* read_u32 on a 3-byte buffer: the position stops at 3
C13_Witness ==
    /\ pc = "reader"
    /\ op.name = "read_u32"
    /\ Len(bytes) = 3
    /\ parser.position = 3
    /\ remaining(parser) = 0

\* C15: each iteration of the attribute loop of Link::from that starts with
\* remaining() > 0 advances the reader position by at least one byte, also
\* for a TLV of declared length 0, so the loop runs finitely often and
\* NetlinkMessage::from comes to an end on every buffer (by returning, or
\* by the abort of C7).
C15_DecodingTerminates ==
    /\ <>(pc = "done")
    /\ [][ (pc = "link_loop" /\ pc' = "attr_value")
              => parser'.position >= parser.position + 1 ]_vars
    /\ [][ (pc = "attr_value" /\ pc' = "link_loop")
              => parser'.position >= parser.position ]_vars

\* the loop ran twice over TLVs of declared length 0 and from returned
C15_Witness ==
    /\ pc = "done"
    /\ result.payload.tag = "Route"
    /\ Len(result.payload.attributes) = 2
    /\ result.payload.attributes[1].length = 0
    /\ result.payload.attributes[2].length = 0
    /\ parser.position = Len(bytes)

====
